---- MODULE Spec2Model ----
(***************************************************************************)
(* Model of src/main.py: the pipeline that collects the last N merged pull *)
(* requests of a repository, fetches each diff, asks a text model for a    *)
(* title and a summary, and writes one report row per pull request.        *)
(*                                                                         *)
(* Text is a sequence of one-character strings.  Python's None is the      *)
(* empty tuple <<>> and a present value v is <<v>> (an option).            *)
(* The HTTP transport is modelled by what main reads of a response: the    *)
(* status code and the body.                                               *)
(***************************************************************************)
EXTENDS Integers, Sequences, FiniteSets, TLC

VARIABLES
    repo_url,        \* config.GITHUB_REPO_URL (text)
    github_token,    \* config.GITHUB_TOKEN (text)
    gemini_key,      \* config.GEMINI_API_KEY (text)
    n_prs,           \* config.N_PRS (option of an integer)
    listing_total,   \* the server's closed-PR listing: how many PRs it holds
    listing_merged,  \* the positions of the listing whose PR is merged
    pc,              \* position of main (or of a stand-alone ask_gemini call)
    owner,           \* main's local owner
    repo,            \* main's local repo
    merged_prs,      \* main's local merged_prs
    page,            \* main's local page
    rows,            \* main's local rows
    idx,             \* position of the for loop over merged_prs (1-based)
    diff,            \* main's local diff / ask_gemini's argument diff_text
    prompt,          \* option: the prompt of the last model invocation
    response,        \* option: what the model did at the last invocation
    gen,             \* the value the last ask_gemini call produced
    events,          \* the requests, model calls, rows and writes, in order
    report           \* option: the rows written to results.csv

vars == <<repo_url, github_token, gemini_key, n_prs, listing_total,
          listing_merged, pc, owner, repo, merged_prs, page, rows, idx, diff,
          prompt, response, gen, events, report>>

-----------------------------------------------------------------------------
(* Bounds of the model *)

\* largest target count N drawn for config.N_PRS
MaxN == 2
\* the listings drawn hold up to MaxPages full pages (plus a partial one)
MaxPages == 2
\* a drawn model response is a concatenation of at most MaxPieces pieces
MaxPieces == 4
\* the longest diff drawn has CropLen + MaxOver characters
MaxOver == 2
\* a drawn repository URL has at most MaxUrlLen characters
MaxUrlLen == 4

(* Program constants *)

\* per_page = 100
per_page == 100
\* len(diff_text) > 8000 ; diff_text[:8000]
CropLen == 8000
\* r.status_code == 200
StatusOK == 200

-----------------------------------------------------------------------------
(* Python values *)

None == <<>>
Some(v) == <<v>>
\* Python truthiness of an option of a text: None and "" are falsy
Truthy(o) == o # None /\ o[1] # <<>>
\* x or ""
OrEmpty(o) == IF Truthy(o) THEN o[1] ELSE <<>>

Min(a, b) == IF a < b THEN a ELSE b

(* Python str operations, on sequences of characters *)

Whitespace == {" ", "\t", "\n", "\r"}

RECURSIVE LStrip(_)
LStrip(s) ==
    IF s # <<>> /\ Head(s) \in Whitespace THEN LStrip(Tail(s)) ELSE s

RECURSIVE RStrip(_)
RStrip(s) ==
    IF s # <<>> /\ s[Len(s)] \in Whitespace
    THEN RStrip(SubSeq(s, 1, Len(s) - 1))
    ELSE s

\* str.strip()
Strip(s) == RStrip(LStrip(s))

\* str.startswith(prefix)
StartsWith(s, prefix) ==
    /\ Len(s) >= Len(prefix)
    /\ SubSeq(s, 1, Len(prefix)) = prefix

\* s[n:]
Drop(s, n) == SubSeq(s, n + 1, Len(s))

\* str.split(sep) for a one-character separator: never an empty list
RECURSIVE SplitAcc(_, _, _, _)
SplitAcc(s, sep, cur, acc) ==
    IF s = <<>> THEN Append(acc, cur)
    ELSE IF Head(s) = sep
         THEN SplitAcc(Tail(s), sep, <<>>, Append(acc, cur))
         ELSE SplitAcc(Tail(s), sep, Append(cur, Head(s)), acc)

Split(s, sep) == SplitAcc(s, sep, <<>>, <<>>)

\* str.replace(old, ""): every non-overlapping occurrence, left to right
RECURSIVE Remove(_, _)
Remove(s, old) ==
    IF s = <<>> THEN <<>>
    ELSE IF StartsWith(s, old) THEN Remove(Drop(s, Len(old)), old)
    ELSE <<Head(s)>> \o Remove(Tail(s), old)

TITLE == <<"T", "I", "T", "L", "E", ":">>
SUMMARY == <<"S", "U", "M", "M", "A", "R", "Y", ":">>

-----------------------------------------------------------------------------
(* parse_repo *)

\* parts = url.strip().split("/")
RepoParts(url) == Split(Strip(url), "/")

\* return parts[-2], parts[-1]; parts[-2] raises IndexError on a single part
ParseRepo(url) ==
    LET parts == RepoParts(url) IN
    IF Len(parts) < 2
    THEN [raised |-> TRUE, owner |-> <<>>, repo |-> <<>>]
    ELSE [raised |-> FALSE,
          owner |-> parts[Len(parts) - 1],
          repo |-> parts[Len(parts)]]

-----------------------------------------------------------------------------
(* get_pr_diff *)

\* get_pr_diff without its test of the status
GetPrDiff_AnyStatus(r) == r.text

\* r.text if r.status_code == 200, else ""
GetPrDiff(r) == IF r.status = StatusOK THEN r.text ELSE <<>>

-----------------------------------------------------------------------------
(* ask_gemini *)

EmptyPair == [raised |-> FALSE, title |-> <<>>, summary |-> <<>>]

\* ask_gemini without its guard on the empty diff
AskInvokes_Always(diff_text) == TRUE

\* "if not diff_text: return": the model is reached only with a non-empty diff
AskInvokes(diff_text) == diff_text # <<>>

\* the crop one character short
CropDiff_OneShort(diff_text) ==
    IF Len(diff_text) > CropLen
    THEN SubSeq(diff_text, 1, CropLen - 1)
    ELSE diff_text

\* the safety crop of very large diffs
CropDiff(diff_text) ==
    IF Len(diff_text) > CropLen THEN SubSeq(diff_text, 1, CropLen) ELSE diff_text

\* the f-string: the fixed instructions, then the (cropped) diff
BuildPrompt(diff_text) ==
    [instructions |-> "code reviewer: TITLE/SUMMARY format",
     diff |-> CropDiff(diff_text)]

\* label in line
Contains(s, sub) == \E i \in 0..Len(s) : StartsWith(Drop(s, i), sub)

\* the loop body testing "label in line" where the code tests startswith
ParseLine_Contains(raw, acc) ==
    LET line == Strip(raw) IN
    IF Contains(line, TITLE)
    THEN [acc EXCEPT !.title = Strip(Remove(line, TITLE))]
    ELSE IF Contains(line, SUMMARY)
         THEN [acc EXCEPT !.summary = Strip(Remove(line, SUMMARY))]
         ELSE acc

\* one iteration of "for line in text.split(...)": acc is (title, summary)
ParseLine(raw, acc) ==
    LET line == Strip(raw) IN
    IF StartsWith(line, TITLE)
    THEN [acc EXCEPT !.title = Strip(Remove(line, TITLE))]
    ELSE IF StartsWith(line, SUMMARY)
         THEN [acc EXCEPT !.summary = Strip(Remove(line, SUMMARY))]
         ELSE acc

RECURSIVE ParseLines(_, _)
ParseLines(lines, acc) ==
    IF lines = <<>> THEN acc
    ELSE ParseLines(Tail(lines), ParseLine(Head(lines), acc))

\* text = (...).strip(); title, summary = "", ""; the loop; return
ParseResponse(text) == ParseLines(Split(Strip(text), "\n"), EmptyPair)

(* What model.generate_content can do: raise; return a falsy response;      *)
(* return a response whose text accessor raises; return a response without  *)
(* text (absent or None); return a response with text.                      *)
Outcome(k, t) == [kind |-> k, text |-> t]

OutcomeRaise == Outcome("raise", <<>>)
OutcomeFalsy == Outcome("falsy", <<>>)
OutcomeTextRaises == Outcome("textraises", <<>>)
OutcomeNoText == Outcome("notext", <<>>)

FailureKinds == {"raise", "falsy", "textraises", "notext"}

\* the try block without its except clause: the exception reaches main
AskTry_Propagates(outcome) ==
    CASE outcome.kind = "raise" -> [EmptyPair EXCEPT !.raised = TRUE]
      [] outcome.kind = "falsy" -> EmptyPair
      [] outcome.kind = "textraises" -> [EmptyPair EXCEPT !.raised = TRUE]
      [] outcome.kind = "notext" -> ParseResponse(<<>>)
      [] OTHER -> ParseResponse(outcome.text)

\* the try block and its except clause
AskTry(outcome) ==
    CASE outcome.kind = "raise" -> EmptyPair
      [] outcome.kind = "falsy" -> EmptyPair
      [] outcome.kind = "textraises" -> EmptyPair
      [] outcome.kind = "notext" -> ParseResponse(<<>>)
      [] OTHER -> ParseResponse(outcome.text)

\* ask_gemini(diff_text), the model answering the invocation with outcome
AskGemini(diff_text, outcome) ==
    IF AskInvokes(diff_text) THEN AskTry(outcome) ELSE EmptyPair

-----------------------------------------------------------------------------
(* The closed-PR listing of the server, and one page of it *)

\* the JSON object of the PR at position p of a listing (sort=updated, desc)
PRAt(total, merged, p) ==
    LET number == total - p + 1 IN
    [number |-> number,
     title |-> IF number % 3 = 0 THEN None ELSE Some(<<"t", ToString(number)>>),
     body |-> IF number % 2 = 0 THEN None ELSE Some(<<"b", ToString(number)>>),
     merged_at |-> IF p \in merged THEN Some(<<"2", "0", "2", "4">>) ELSE None]

\* the list that page k holds with per_page items a page
PageData(total, merged, k) ==
    LET first == (k - 1) * per_page
        size == IF total - first < 0 THEN 0 ELSE Min(per_page, total - first)
    IN [i \in 1..size |-> PRAt(total, merged, first + i)]

\* the whole listing, in the listing's order
Listing(total, merged) == [p \in 1..total |-> PRAt(total, merged, p)]

\* what a listing request for page k can answer: the page, a non-success
\* status, or a success whose JSON body is not a list
ListResponses(total, merged, k) ==
    { [status |-> StatusOK, kind |-> "list", data |-> PageData(total, merged, k)],
      [status |-> 500, kind |-> "fail", data |-> <<>>],
      [status |-> StatusOK, kind |-> "notlist", data |-> <<>>] }

IsMergedRecord(pr) == Truthy(pr.merged_at)

\* "for pr in data": append the merged ones, break when n_prs are gathered
RECURSIVE CollectFrom(_, _, _, _)
CollectFrom(acc, data, i, n) ==
    IF i > Len(data) THEN acc
    ELSE IF Truthy(data[i].merged_at)
         THEN LET more == Append(acc, data[i]) IN
              IF Len(more) = n THEN more ELSE CollectFrom(more, data, i + 1, n)
         ELSE CollectFrom(acc, data, i + 1, n)

\* the loop without its break: every merged PR of the page is appended
CollectPage_NoBreak(acc, data, n) == acc \o SelectSeq(data, IsMergedRecord)

CollectPage(acc, data, n) == CollectFrom(acc, data, 1, n)

\* the loop without its test for an empty page
EndsCollection_IgnoresEmptyPage(r) == r.status # StatusOK \/ r.kind # "list"

\* the loop ending also on a page that holds no merged PR
EndsCollection_OnNoMerged(r) ==
    \/ r.status # StatusOK
    \/ r.kind # "list"
    \/ SelectSeq(r.data, IsMergedRecord) = <<>>

\* "if r.status_code != 200: ... break" and "if not isinstance(...) or not
\* data: break": whether the response ends the while loop
EndsCollection(r) ==
    \/ r.status # StatusOK
    \/ r.kind # "list"
    \/ r.data = <<>>

-----------------------------------------------------------------------------
(* The report row of one PR *)

\* the row with the original title and body in each other's column
MakeRow_SwapsOriginals(pr, g) ==
    [number |-> pr.number,
     original_title |-> OrEmpty(pr.body),
     generated_title |-> g.title,
     original_summary |-> OrEmpty(pr.title),
     generated_summary |-> g.summary]

MakeRow(pr, g) ==
    [number |-> pr.number,
     original_title |-> OrEmpty(pr.title),
     generated_title |-> g.title,
     original_summary |-> OrEmpty(pr.body),
     generated_summary |-> g.summary]

\* the loop skipping the PRs that have no diff
AppendRow_SkipsEmptyDiff(rs, pr, d, g) ==
    IF d = <<>> THEN rs ELSE Append(rs, MakeRow(pr, g))

\* rows.append({...}) at the end of each iteration of the loop over merged_prs
AppendRow(rs, pr, d, g) == Append(rs, MakeRow(pr, g))

Event(t, id, status, size, kind) ==
    [type |-> t, id |-> id, status |-> status, size |-> size, kind |-> kind]

\* the model invocation that ask_gemini(d) makes for PR number, if any
AskEvents(d, number, outcome) ==
    IF AskInvokes(d)
    THEN <<Event("model", number, 0, Len(CropDiff(d)), outcome.kind)>>
    ELSE <<>>

-----------------------------------------------------------------------------
(* The inputs drawn: configuration, listing, diffs, model responses *)

ConfigTexts == {None, Some(<<>>), Some(<<"k">>)}

RepoUrls == {None, Some(<<>>), Some(<<"w">>), Some(<<"a", "/", "w">>)}

NValues == {None} \cup {Some(n) : n \in -1..MaxN}

\* listing sizes: full pages, and full pages followed by a partly filled one
Totals == {k * per_page + r : k \in 0..MaxPages, r \in {0, 1}}

\* the positions that may be merged: the first of each page, and the last of
\* the first page
MergedCandidates(total) ==
    {p \in 1..total : p % per_page = 1 \/ p = per_page}

\* the diff bodies and statuses of the diff requests of a run
DiffResponses ==
    { [status |-> StatusOK, text |-> <<>>],
      [status |-> StatusOK, text |-> <<"+", "x">>],
      [status |-> 404, text |-> <<"N", "o", "t">>] }

\* the response text of the specification's example
ExampleText ==
    <<"b", "l", "a", "h", "\n", "T", "I", "T", "L", "E", ":", " ", "F",
      "i", "x", " ", "r", "a", "c", "e", "\n", "S", "U", "M", "M", "A",
      "R", "Y", ":", " ", "A", "d", "d", "s", " ", "a", " ", "m", "u", "t",
      "e", "x", ".", "\n", "-", "-", "-", "\n">>

TextPieces == {TITLE, SUMMARY, <<" ">>, <<"\n">>, <<"a">>, <<"b">>}

RECURSIVE TextsUpTo(_)
TextsUpTo(n) ==
    IF n = 0 THEN {<<>>}
    ELSE LET prev == TextsUpTo(n - 1) IN
         prev \cup {t \o q : t \in prev, q \in TextPieces}

AllTexts == TextsUpTo(MaxPieces) \cup {ExampleText}

MainText1 ==
    <<"T", "I", "T", "L", "E", ":", " ", "a", "\n", "S", "U", "M", "M",
      "A", "R", "Y", ":", " ", "b">>

MainText2 ==
    <<"x", "\n", "S", "U", "M", "M", "A", "R", "Y", ":", "c">>

FailureOutcomes == {OutcomeRaise, OutcomeFalsy, OutcomeTextRaises, OutcomeNoText}

\* what the model does in a run of main
MainOutcomes ==
    FailureOutcomes \cup {Outcome("text", MainText1), Outcome("text", MainText2)}

DiffChars == <<"+", "-", "x">>

\* a diff of len characters, its character at i fixed by i and k
DiffText(len, k) == [i \in 1..len |-> DiffChars[((i + k) % 3) + 1]]

DiffLens == (0..2) \cup ((CropLen - 1)..(CropLen + MaxOver))

\* the diffs a stand-alone ask_gemini call is given
AskDiffs == {DiffText(len, k) : len \in DiffLens, k \in 0..2}

\* what the model does in a stand-alone call: every response text for the
\* one-character diffs, the texts of main for the others
AskOutcomes(d) ==
    IF Len(d) = 1
    THEN FailureOutcomes \cup {Outcome("text", t) : t \in AllTexts}
    ELSE MainOutcomes

-----------------------------------------------------------------------------
(* main *)

Init ==
    /\ repo_url \in RepoUrls
    /\ github_token \in ConfigTexts
    /\ gemini_key \in ConfigTexts
    /\ n_prs \in NValues
    /\ listing_total \in Totals
    /\ listing_merged \in SUBSET MergedCandidates(listing_total)
    /\ pc = "start"
    /\ owner = <<>>
    /\ repo = <<>>
    /\ merged_prs = <<>>
    /\ page = 1
    /\ rows = <<>>
    /\ idx = 1
    /\ diff = <<>>
    /\ prompt = None
    /\ response = None
    /\ gen = EmptyPair
    /\ events = <<>>
    /\ report = None

\* lines 87-108: read the configuration, check the three texts, parse_repo,
\* merged_prs = [], page = 1
Start ==
    /\ pc = "start"
    /\ IF ~Truthy(repo_url) \/ ~Truthy(github_token) \/ ~Truthy(gemini_key)
       THEN /\ pc' = "exit_config"
            /\ UNCHANGED <<owner, repo>>
       ELSE LET parsed == ParseRepo(repo_url[1]) IN
            IF parsed.raised
            THEN /\ pc' = "crashed"
                 /\ UNCHANGED <<owner, repo>>
            ELSE /\ pc' = "collect"
                 /\ owner' = parsed.owner
                 /\ repo' = parsed.repo
    /\ UNCHANGED <<repo_url, github_token, gemini_key, n_prs, listing_total,
                   listing_merged, merged_prs, page, rows, idx, diff, prompt,
                   response, gen, events, report>>

\* line 110 with N_PRS = None: len(merged_prs) < None raises TypeError
LoopTestRaises ==
    /\ pc = "collect"
    /\ n_prs = None
    /\ pc' = "crashed"
    /\ UNCHANGED <<repo_url, github_token, gemini_key, n_prs, listing_total,
                   listing_merged, owner, repo, merged_prs, page, rows, idx,
                   diff, prompt, response, gen, events, report>>

\* line 110, the test false: the while loop ends
LoopExit ==
    /\ pc = "collect"
    /\ n_prs # None
    /\ ~(Len(merged_prs) < n_prs[1])
    /\ pc' = "collected"
    /\ UNCHANGED <<repo_url, github_token, gemini_key, n_prs, listing_total,
                   listing_merged, owner, repo, merged_prs, page, rows, idx,
                   diff, prompt, response, gen, events, report>>

\* the while loop testing len(merged_prs) <= n_prs
ListPage_TestsAtMost ==
    /\ pc = "collect"
    /\ n_prs # None
    /\ Len(merged_prs) <= n_prs[1]
    /\ \E r \in ListResponses(listing_total, listing_merged, page) :
          /\ events' = Append(events,
                              Event("list", page, r.status, Len(r.data), r.kind))
          /\ IF EndsCollection(r)
             THEN /\ pc' = "collected"
                  /\ UNCHANGED <<merged_prs, page>>
             ELSE /\ merged_prs' = CollectPage(merged_prs, r.data, n_prs[1])
                  /\ page' = page + 1
                  /\ pc' = "collect"
    /\ UNCHANGED <<repo_url, github_token, gemini_key, n_prs, listing_total,
                   listing_merged, owner, repo, rows, idx, diff, prompt,
                   response, gen, report>>

\* lines 110-147, one iteration of the while loop: request page, break on a
\* failure or an empty page, else gather the page's merged PRs and page += 1
ListPage ==
    /\ pc = "collect"
    /\ n_prs # None
    /\ Len(merged_prs) < n_prs[1]
    /\ \E r \in ListResponses(listing_total, listing_merged, page) :
          /\ events' = Append(events,
                              Event("list", page, r.status, Len(r.data), r.kind))
          /\ IF EndsCollection(r)
             THEN /\ pc' = "collected"
                  /\ UNCHANGED <<merged_prs, page>>
             ELSE /\ merged_prs' = CollectPage(merged_prs, r.data, n_prs[1])
                  /\ page' = page + 1
                  /\ pc' = "collect"
    /\ UNCHANGED <<repo_url, github_token, gemini_key, n_prs, listing_total,
                   listing_merged, owner, repo, rows, idx, diff, prompt,
                   response, gen, report>>

\* main without "if not merged_prs: return": the loop over no PR, then the
\* report
AfterCollect_NoEmptyCheck ==
    /\ pc = "collected"
    /\ IF merged_prs = <<>>
       THEN pc' = "write"
       ELSE pc' = "fetch"
    /\ rows' = <<>>
    /\ idx' = 1
    /\ UNCHANGED <<repo_url, github_token, gemini_key, n_prs, listing_total,
                   listing_merged, owner, repo, merged_prs, page, diff, prompt,
                   response, gen, events, report>>

\* lines 149-155: "if not merged_prs: return", else rows = [] and the loop
AfterCollect ==
    /\ pc = "collected"
    /\ IF merged_prs = <<>>
       THEN pc' = "exit_empty"
       ELSE pc' = "fetch"
    /\ rows' = <<>>
    /\ idx' = 1
    /\ UNCHANGED <<repo_url, github_token, gemini_key, n_prs, listing_total,
                   listing_merged, owner, repo, merged_prs, page, diff, prompt,
                   response, gen, events, report>>

\* the loop calling get_pr_diff twice for a PR
FetchDiff_Twice ==
    /\ pc = "fetch"
    /\ idx <= Len(merged_prs)
    /\ \E r \in DiffResponses :
          LET e == Event("diff", merged_prs[idx].number, r.status,
                         Len(GetPrDiff(r)), "diff")
          IN /\ diff' = GetPrDiff(r)
             /\ events' = events \o <<e, e>>
    /\ pc' = "summarize"
    /\ UNCHANGED <<repo_url, github_token, gemini_key, n_prs, listing_total,
                   listing_merged, owner, repo, merged_prs, page, rows, idx,
                   prompt, response, gen, report>>

\* lines 156-164: the next PR of merged_prs, diff = get_pr_diff(...)
FetchDiff ==
    /\ pc = "fetch"
    /\ idx <= Len(merged_prs)
    /\ \E r \in DiffResponses :
          /\ diff' = GetPrDiff(r)
          /\ events' = Append(events,
                              Event("diff", merged_prs[idx].number, r.status,
                                    Len(GetPrDiff(r)), "diff"))
    /\ pc' = "summarize"
    /\ UNCHANGED <<repo_url, github_token, gemini_key, n_prs, listing_total,
                   listing_merged, owner, repo, merged_prs, page, rows, idx,
                   prompt, response, gen, report>>

\* the outcomes to draw for ask_gemini(d): one when the model is not reached
Drawn(d, outcomes) == IF AskInvokes(d) THEN outcomes ELSE {OutcomeNoText}

\* lines 166-177: gen_title, gen_summary = ask_gemini(diff); rows.append(...)
Summarize ==
    /\ pc = "summarize"
    /\ \E o \in Drawn(diff, MainOutcomes) :
          LET pr == merged_prs[idx]
              g == AskGemini(diff, o)
              asked == AskEvents(diff, pr.number, o)
          IN /\ gen' = g
             /\ prompt' = IF AskInvokes(diff) THEN Some(BuildPrompt(diff)) ELSE prompt
             /\ response' = IF AskInvokes(diff) THEN Some(o) ELSE response
             /\ IF g.raised
                THEN /\ pc' = "crashed"
                     /\ events' = events \o asked
                     /\ UNCHANGED <<rows, idx>>
                ELSE /\ rows' = AppendRow(rows, pr, diff, g)
                     /\ events' = (events \o asked)
                                   \o <<Event("row", pr.number, 0, 0, "row")>>
                     /\ idx' = idx + 1
                     /\ pc' = IF idx + 1 <= Len(merged_prs) THEN "fetch" ELSE "write"
    /\ UNCHANGED <<repo_url, github_token, gemini_key, n_prs, listing_total,
                   listing_merged, owner, repo, merged_prs, page, diff, report>>

\* the report written inside the loop too, after each row
WriteReport_InsideLoop ==
    /\ \/ pc = "write"
       \/ /\ pc = "fetch"
          /\ rows # <<>>
          /\ events[Len(events)].type # "write"
    /\ report' = Some(rows)
    /\ events' = Append(events, Event("write", 0, 0, Len(rows), "write"))
    /\ pc' = IF pc = "write" THEN "done" ELSE pc
    /\ UNCHANGED <<repo_url, github_token, gemini_key, n_prs, listing_total,
                   listing_merged, owner, repo, merged_prs, page, rows, idx,
                   diff, prompt, response, gen>>

\* lines 179-194: the rows are written to results.csv
WriteReport ==
    /\ pc = "write"
    /\ report' = Some(rows)
    /\ events' = Append(events, Event("write", 0, 0, Len(rows), "write"))
    /\ pc' = "done"
    /\ UNCHANGED <<repo_url, github_token, gemini_key, n_prs, listing_total,
                   listing_merged, owner, repo, merged_prs, page, rows, idx,
                   diff, prompt, response, gen>>

Next ==
    \/ Start
    \/ LoopTestRaises
    \/ LoopExit
    \/ ListPage
    \/ AfterCollect
    \/ FetchDiff
    \/ Summarize
    \/ WriteReport

Spec == Init /\ [][Next]_vars

-----------------------------------------------------------------------------
(* ask_gemini called on its own *)

InitAsk ==
    /\ repo_url = None
    /\ github_token = None
    /\ gemini_key = None
    /\ n_prs = None
    /\ listing_total = 0
    /\ listing_merged = {}
    /\ pc = "ask"
    /\ owner = <<>>
    /\ repo = <<>>
    /\ merged_prs = <<>>
    /\ page = 1
    /\ rows = <<>>
    /\ idx = 1
    /\ diff \in AskDiffs
    /\ prompt = None
    /\ response = None
    /\ gen = EmptyPair
    /\ events = <<>>
    /\ report = None

\* lines 34-83: one call ask_gemini(diff)
AskStep ==
    /\ pc = "ask"
    /\ \E o \in Drawn(diff, AskOutcomes(diff)) :
          /\ gen' = AskGemini(diff, o)
          /\ prompt' = IF AskInvokes(diff) THEN Some(BuildPrompt(diff)) ELSE prompt
          /\ response' = IF AskInvokes(diff) THEN Some(o) ELSE response
          /\ events' = events \o AskEvents(diff, 0, o)
    /\ pc' = "asked"
    /\ UNCHANGED <<repo_url, github_token, gemini_key, n_prs, listing_total,
                   listing_merged, owner, repo, merged_prs, page, rows, idx,
                   diff, report>>

NextAsk == AskStep

SpecAsk == InitAsk /\ [][NextAsk]_vars

-----------------------------------------------------------------------------
(* parse_repo called on its own *)

UrlChars == {"a", "w", "/", " "}

RECURSIVE UrlsUpTo(_)
UrlsUpTo(n) ==
    IF n = 0 THEN {<<>>}
    ELSE LET prev == UrlsUpTo(n - 1) IN
         prev \cup {u \o <<c>> : u \in prev, c \in UrlChars}

\* the URLs a stand-alone parse_repo call is given
AllUrls == UrlsUpTo(MaxUrlLen)

InitRepo ==
    /\ repo_url \in {Some(u) : u \in AllUrls}
    /\ github_token = None
    /\ gemini_key = None
    /\ n_prs = None
    /\ listing_total = 0
    /\ listing_merged = {}
    /\ pc = "parse"
    /\ owner = <<>>
    /\ repo = <<>>
    /\ merged_prs = <<>>
    /\ page = 1
    /\ rows = <<>>
    /\ idx = 1
    /\ diff = <<>>
    /\ prompt = None
    /\ response = None
    /\ gen = EmptyPair
    /\ events = <<>>
    /\ report = None

\* lines 9-12: one call parse_repo(url), returning a pair or raising
ParseStep ==
    /\ pc = "parse"
    /\ LET parsed == ParseRepo(repo_url[1]) IN
       IF parsed.raised
       THEN /\ pc' = "raised"
            /\ UNCHANGED <<owner, repo>>
       ELSE /\ pc' = "parsed"
            /\ owner' = parsed.owner
            /\ repo' = parsed.repo
    /\ UNCHANGED <<repo_url, github_token, gemini_key, n_prs, listing_total,
                   listing_merged, merged_prs, page, rows, idx, diff, prompt,
                   response, gen, events, report>>

NextRepo == ParseStep

SpecRepo == InitRepo /\ [][NextRepo]_vars

-----------------------------------------------------------------------------
(* Vocabulary of the properties *)

IsMerged(pr) == pr.merged_at # None

\* the merged PRs of the whole listing, in the listing's order
MergedOfListing == SelectSeq(Listing(listing_total, listing_merged), IsMerged)

EventsOf(t) == {i \in DOMAIN events : events[i].type = t}

\* N is a positive integer
ValidCount == n_prs # None /\ n_prs[1] > 0

\* the while loop of main has ended normally
CollectionEnded ==
    pc \in {"collected", "exit_empty", "fetch", "summarize", "write", "done"}

\* every listing request so far returned status 200 with a JSON list
AllListingsSucceeded == \A i \in EventsOf("list") : events[i].kind = "list"

\* a listing request returned a non-success status
ListingFailed == \E i \in EventsOf("list") : events[i].status # StatusOK

\* the diff request of PR number returned a non-success status
DiffFailed(number) ==
    \E i \in EventsOf("diff") :
        events[i].id = number /\ events[i].status # StatusOK

\* the diff request of PR number returned a usable, non-empty diff
DiffUsable(number, before) ==
    \E j \in EventsOf("diff") :
        /\ j < before
        /\ events[j].id = number
        /\ events[j].status = StatusOK
        /\ events[j].size > 0

NoGenerated(row) == row.generated_title = <<>> /\ row.generated_summary = <<>>

\* rs holds one row per collected PR, in collection order
RowsMatch(rs) ==
    /\ Len(rs) = Len(merged_prs)
    /\ \A i \in DOMAIN rs : rs[i].number = merged_prs[i].number

-----------------------------------------------------------------------------
(* C1: with N > 0 and every listing request succeeding, the collection    *)
(* loop ends with exactly the first min(N, total merged) merged PRs of    *)
(* the listing, in the listing's order, each with a merge timestamp.      *)
C1_CollectsFirstMerged ==
    (ValidCount /\ CollectionEnded /\ AllListingsSucceeded) =>
        /\ merged_prs =
              SubSeq(MergedOfListing, 1, Min(n_prs[1], Len(MergedOfListing)))
        /\ \A i \in DOMAIN merged_prs : Truthy(merged_prs[i].merged_at)

\* N merged PRs gathered from more than one page, a later merged PR left out
C1_Witness ==
    /\ ValidCount /\ CollectionEnded /\ AllListingsSucceeded
    /\ Len(merged_prs) = 2
    /\ n_prs[1] = 2
    /\ page >= 3
    /\ Len(MergedOfListing) > 2

(* C2: a listing failure on a page k > 1, after merged PRs were gathered,  *)
(* aborts the run: no diff is fetched, no row assembled, no report         *)
(* written from the PRs gathered before the failure.                       *)
C2_ListingFailureAborts ==
    (/\ merged_prs # <<>>
     /\ \E i \in EventsOf("list") :
            events[i].status # StatusOK /\ events[i].id > 1)
    => /\ EventsOf("diff") = {}
       /\ EventsOf("row") = {}
       /\ report = None

(* C3 as stated: the number of listing pages requested is at most          *)
(* (total closed PRs) / 100 + 1.                                           *)
C3_PageBoundAsStated ==
    ValidCount =>
        per_page * Cardinality(EventsOf("list")) <= listing_total + per_page

(* C3, amended: for N > 0 the collection loop terminates: it makes one     *)
(* listing request per iteration, and the number of listing pages it       *)
(* requests is at most ceil(total closed PRs / 100) + 1, every non-empty   *)
(* page and then one empty page.                                           *)
C3_PageBound ==
    ValidCount =>
        Cardinality(EventsOf("list")) <=
            ((listing_total + per_page - 1) \div per_page) + 1

\* a partly filled last page was read, then the empty page after it, N unmet
C3_Witness ==
    /\ ValidCount /\ CollectionEnded /\ AllListingsSucceeded
    /\ listing_total % per_page = 1
    /\ listing_total > per_page
    /\ Len(merged_prs) < n_prs[1]
    /\ Cardinality(EventsOf("list")) = (listing_total \div per_page) + 2

(* C4: whenever the report is written, it holds exactly one row per        *)
(* collected PR, in collection order, whatever diff fetches and model      *)
(* calls failed; a PR whose diff fetch failed has a row with empty         *)
(* generated title and summary.                                            *)
C4_NoRowDropped ==
    /\ pc \in {"write", "done"} => RowsMatch(rows)
    /\ report # None => RowsMatch(report[1])
    /\ \A i \in DOMAIN rows :
          /\ i <= Len(merged_prs)
          /\ rows[i].number = merged_prs[i].number
          /\ DiffFailed(rows[i].number) => NoGenerated(rows[i])

\* the first PR's diff fetch failed, the second PR still got generated text
C4_Witness ==
    /\ pc = "done"
    /\ Len(report[1]) = 2
    /\ DiffFailed(report[1][1].number)
    /\ NoGenerated(report[1][1])
    /\ report[1][2].generated_title # <<>>

(* C5: the title is the remainder, trimmed, of the FIRST line that after   *)
(* trimming begins with TITLE:, the summary likewise of the first line     *)
(* beginning with SUMMARY:; later labelled lines change nothing and later  *)
(* occurrences of the label inside the line stay part of the value.        *)
StrippedLines(text) ==
    LET lines == Split(Strip(text), "\n") IN
    [i \in DOMAIN lines |-> Strip(lines[i])]

LabelledLines(text, label) ==
    LET lines == StrippedLines(text) IN
    {i \in DOMAIN lines : StartsWith(lines[i], label)}

FirstLabelled(text, label) ==
    LET lines == StrippedLines(text)
        at == LabelledLines(text, label)
    IN IF at = {} THEN <<>>
       ELSE LET first == CHOOSE i \in at : \A j \in at : i <= j
            IN Strip(Drop(lines[first], Len(label)))

ParsedText == pc = "asked" /\ response # None /\ response[1].kind = "text"

C5_FirstLabelledLineWins ==
    ParsedText =>
        /\ gen.title = FirstLabelled(response[1].text, TITLE)
        /\ gen.summary = FirstLabelled(response[1].text, SUMMARY)

(* C6: the parser yields a pair of texts for every response text; a label  *)
(* that begins no line leaves its field empty whatever the other field     *)
(* is; the lines that begin with neither label do not change the result.   *)
IsText(v) == DOMAIN v = 1..Len(v) /\ \A i \in DOMAIN v : v[i] \in STRING

RECURSIVE JoinLines(_)
JoinLines(lines) ==
    IF lines = <<>> THEN <<>>
    ELSE IF Len(lines) = 1 THEN lines[1]
    ELSE lines[1] \o <<"\n">> \o JoinLines(Tail(lines))

IsLabelled(line) == StartsWith(line, TITLE) \/ StartsWith(line, SUMMARY)

OnlyLabelled(text) == JoinLines(SelectSeq(StrippedLines(text), IsLabelled))

C6_ParserTotalPermissive ==
    ParsedText =>
        LET text == response[1].text IN
        /\ ~gen.raised
        /\ IsText(gen.title) /\ IsText(gen.summary)
        /\ LabelledLines(text, TITLE) = {} => gen.title = <<>>
        /\ LabelledLines(text, SUMMARY) = {} => gen.summary = <<>>
        /\ gen = ParseResponse(OnlyLabelled(text))

\* commentary, then a SUMMARY: line, and no TITLE: line
C6_Witness ==
    /\ ParsedText
    /\ LabelledLines(response[1].text, TITLE) = {}
    /\ Len(StrippedLines(response[1].text)) >= 2
    /\ ~IsLabelled(StrippedLines(response[1].text)[1])
    /\ gen.title = <<>>
    /\ gen.summary # <<>>

(* C7: ask_gemini with an empty diff returns two empty strings and does    *)
(* not invoke the model: in a run every model invocation is for a PR whose *)
(* diff request returned status 200 with a non-empty body.                 *)
C7_NoModelCallOnEmptyDiff ==
    /\ \A i \in EventsOf("model") : DiffUsable(events[i].id, i)
    /\ (pc \in {"fetch", "write", "done"} /\ rows # <<>> /\ diff = <<>>) =>
          /\ gen = EmptyPair
          /\ NoGenerated(rows[Len(rows)])

\* a failed and an empty diff were both summarized without a model call
C7_Witness ==
    /\ pc = "done"
    /\ EventsOf("model") = {}
    /\ \E i \in EventsOf("diff") : events[i].status # StatusOK
    /\ \E i \in EventsOf("diff") :
          events[i].status = StatusOK /\ events[i].size = 0
    /\ Len(rows) = 2

(* C8: for a non-empty diff of length L the diff embedded in the prompt is *)
(* exactly its first min(L, 8000) characters.                              *)
C8_PromptHoldsCroppedDiff ==
    (pc = "asked" /\ diff # <<>>) =>
        /\ prompt # None
        /\ prompt[1].diff = SubSeq(diff, 1, Min(Len(diff), 8000))

\* a diff longer than the cap reached the model cut to the cap
C8_Witness ==
    /\ pc = "asked"
    /\ Len(diff) > 8000
    /\ prompt # None
    /\ Len(prompt[1].diff) = 8000
    /\ EventsOf("model") # {}

(* C9: a failing model invocation (raise, falsy response, no usable text)  *)
(* is turned into two empty strings and never propagated: the PR still     *)
(* gets its row, and the run goes on to the later PRs.                     *)
C9_ModelFailureContained ==
    /\ pc = "crashed" => EventsOf("model") = {}
    /\ \A i \in EventsOf("model") :
          events[i].kind \in FailureKinds =>
              /\ i < Len(events)
              /\ events[i + 1].type = "row"
              /\ events[i + 1].id = events[i].id
              /\ \A k \in DOMAIN rows :
                    rows[k].number = events[i].id => NoGenerated(rows[k])
    /\ pc = "done" =>
          /\ Cardinality(EventsOf("diff")) = Len(merged_prs)
          /\ Cardinality(EventsOf("row")) = Len(merged_prs)

\* the model call of the first PR raised; the second PR was still summarized
C9_Witness ==
    /\ pc = "done"
    /\ Len(rows) = 2
    /\ \E i \in EventsOf("model") :
          events[i].kind = "raise" /\ events[i].id = rows[1].number
    /\ \E i \in EventsOf("model") :
          events[i].kind = "text" /\ events[i].id = rows[2].number
    /\ rows[2].generated_title # <<>>

(* C10: with the repository reference, the token or the key missing or     *)
(* empty, or N missing or not a positive integer, the run ends cleanly:    *)
(* nothing raises, no listing request is issued, no report is written.     *)
ConfigInvalid ==
    \/ ~Truthy(repo_url)
    \/ ~Truthy(github_token)
    \/ ~Truthy(gemini_key)
    \/ ~ValidCount

\* the repository reference is absent or has its owner/name segments
ReferenceParses == ~Truthy(repo_url) \/ ~ParseRepo(repo_url[1]).raised

C10_InvalidConfigEndsCleanly ==
    (ConfigInvalid /\ ReferenceParses) =>
        /\ pc # "crashed"
        /\ EventsOf("list") = {}
        /\ report = None

(* C11: parse_repo returns as (owner, name) the last two NON-EMPTY         *)
(* segments of the URL split on "/", ignoring a trailing separator: for a  *)
(* URL ending in "/" the name is never the empty string.                   *)
IsNonEmpty(seg) == seg # <<>>

\* the non-empty segments of the trimmed URL
Segments(url) == SelectSeq(Split(Strip(url), "/"), IsNonEmpty)

C11_LastTwoNonEmptySegments ==
    (pc = "parsed" /\ Len(Segments(repo_url[1])) >= 2) =>
        LET segs == Segments(repo_url[1]) IN
        /\ owner = segs[Len(segs) - 1]
        /\ repo = segs[Len(segs)]
        /\ repo # <<>>

(* C12: parse_repo fails, and never returns a pair, whenever the trimmed   *)
(* input has fewer than two non-empty path segments.                       *)
C12_FewerThanTwoSegmentsFails ==
    (pc \in {"parsed", "raised"} /\ Len(Segments(repo_url[1])) < 2) =>
        pc = "raised"

(* C13: when collection ends with zero merged PRs (empty listing, no       *)
(* merged PR, listing failure on the first page), the run reports it and   *)
(* exits: no diff is fetched, the model is not invoked, no report is       *)
(* written.                                                                *)
C13_NothingCollectedNothingWritten ==
    (CollectionEnded /\ merged_prs = <<>>) =>
        /\ pc \in {"collected", "exit_empty"}
        /\ EventsOf("diff") = {}
        /\ EventsOf("model") = {}
        /\ EventsOf("write") = {}
        /\ report = None

\* the first listing request failed and the run exited with nothing gathered
C13_Witness ==
    /\ pc = "exit_empty"
    /\ ValidCount
    /\ Len(events) = 1
    /\ events[1].type = "list"
    /\ events[1].status # StatusOK
    /\ report = None

(* C14: the report is written at most once in a run, only after a row was  *)
(* assembled for every collected PR, and as one batch holding the full     *)
(* ordered row sequence; nothing is written while a collected PR is still  *)
(* unprocessed.                                                            *)
C14_ReportWrittenOnceAtEnd ==
    /\ Cardinality(EventsOf("write")) <= 1
    /\ (report # None) = (EventsOf("write") # {})
    /\ \A i \in EventsOf("write") :
          /\ i = Len(events)
          /\ pc = "done"
          /\ events[i].size = Len(merged_prs)
          /\ report = Some(rows)
          /\ RowsMatch(rows)
    /\ Len(rows) < Len(merged_prs) => report = None

\* two PRs were processed and their two rows written in one batch
C14_Witness ==
    /\ pc = "done"
    /\ Len(merged_prs) = 2
    /\ report = Some(rows)
    /\ Cardinality(EventsOf("write")) = 1
    /\ Cardinality(EventsOf("row")) = 2

(* C15: with N > 0 the number of gathered records never exceeds N and the  *)
(* gathered records are a prefix of the listing's merged PRs (nothing      *)
(* after the N-th merged record of a page is appended); a listing request  *)
(* is issued only while fewer than N records are gathered; page k+1 is     *)
(* requested only after page k returned success with a non-empty list.     *)
ListRequestStep ==
    /\ Len(events') = Len(events) + 1
    /\ events'[Len(events')].type = "list"

GatheredWithinN ==
    ValidCount =>
        /\ Len(merged_prs) <= n_prs[1]
        /\ merged_prs = SubSeq(MergedOfListing, 1, Len(merged_prs))
        /\ \A i \in EventsOf("list") :
              events[i].id > 1 =>
                  \E j \in EventsOf("list") :
                      /\ j < i
                      /\ events[j].id = events[i].id - 1
                      /\ events[j].status = StatusOK
                      /\ events[j].kind = "list"
                      /\ events[j].size > 0

C15_StopsAtN ==
    /\ []GatheredWithinN
    /\ [][(ValidCount /\ ListRequestStep) => Len(merged_prs) < n_prs[1]]_vars

\* N = 1 was reached at the first record of a page whose last record is
\* merged too: one request, one record
C15_Witness ==
    /\ CollectionEnded
    /\ n_prs = Some(1)
    /\ {1, per_page} \subseteq listing_merged
    /\ Len(merged_prs) = 1
    /\ merged_prs[1] = PRAt(listing_total, listing_merged, 1)
    /\ Cardinality(EventsOf("list")) = 1

(* C16: the events of a run are strictly sequential and in PR order: all   *)
(* listing requests come before the first diff request; the k-th diff     *)
(* request is for the k-th collected PR and follows the row of the PR      *)
(* before it; a model invocation directly follows the diff request of its  *)
(* PR; a row directly follows the diff request or the model invocation of  *)
(* its PR; each collected PR gets exactly one diff request.                *)
DiffRank(i) == Cardinality({j \in EventsOf("diff") : j <= i})

C16_SequentialInOrder ==
    /\ \A i \in EventsOf("list") :
          \A j \in DOMAIN events : events[j].type # "list" => i < j
    /\ \A i \in EventsOf("diff") :
          /\ i > 1
          /\ DiffRank(i) <= Len(merged_prs)
          /\ events[i].id = merged_prs[DiffRank(i)].number
          /\ events[i - 1].type \in {"list", "row"}
          /\ events[i - 1].type = "row" =>
                /\ DiffRank(i) > 1
                /\ events[i - 1].id = merged_prs[DiffRank(i) - 1].number
    /\ \A i \in EventsOf("model") :
          /\ i > 1
          /\ events[i - 1].type = "diff"
          /\ events[i - 1].id = events[i].id
    /\ \A i \in EventsOf("row") :
          /\ i > 1
          /\ events[i - 1].type \in {"diff", "model"}
          /\ events[i - 1].id = events[i].id
    /\ \A i \in EventsOf("write") : i > 1 /\ events[i - 1].type = "row"
    /\ pc = "done" => Cardinality(EventsOf("diff")) = Len(merged_prs)

\* two pages listed, then PR 1 with a model call and PR 2 without one
C16_Witness ==
    /\ pc = "done"
    /\ Len(merged_prs) = 2
    /\ Len(events) = 8
    /\ events[1].type = "list" /\ events[2].type = "list"
    /\ events[3].type = "diff" /\ events[4].type = "model"
    /\ events[5].type = "row" /\ events[6].type = "diff"
    /\ events[7].type = "row" /\ events[8].type = "write"

(* C17: listing pages are requested consecutively from page 1, each once   *)
(* and none skipped; a non-empty page without a merged PR does not end     *)
(* collection: only an empty page (or a body that is not a list), a        *)
(* non-success status, or reaching N ends it.                              *)
ListRank(i) == Cardinality({j \in EventsOf("list") : j <= i})

\* the listing response logged at i ends the loop by itself
EndingResponse(i) ==
    \/ events[i].status # StatusOK
    \/ events[i].kind # "list"
    \/ events[i].size = 0

C17_ConsecutivePages ==
    /\ \A i \in EventsOf("list") : events[i].id = ListRank(i)
    /\ \A i \in EventsOf("list") :
          EndingResponse(i) => \A j \in EventsOf("list") : j <= i
    /\ (ValidCount /\ CollectionEnded) =>
          \/ Len(merged_prs) = n_prs[1]
          \/ \E i \in EventsOf("list") : EndingResponse(i)

\* a full first page without a merged PR, and a PR gathered from page 2
C17_Witness ==
    /\ CollectionEnded
    /\ ValidCount
    /\ listing_merged \cap (1..per_page) = {}
    /\ Cardinality(EventsOf("list")) >= 2
    /\ events[1].size = per_page
    /\ merged_prs # <<>>

(* C18: get_pr_diff returns the response body when the diff request        *)
(* returns status 200 and the empty string for every other status, never   *)
(* raising; a diff fetch leaves the rows assembled so far and the          *)
(* collected sequence unchanged.                                           *)
DiffRequestStep ==
    /\ Len(events') = Len(events) + 1
    /\ events'[Len(events')].type = "diff"

OkDiffBodies == {r.text : r \in {q \in DiffResponses : q.status = StatusOK}}

DiffReturned ==
    pc = "summarize" =>
        LET e == events[Len(events)] IN
        /\ e.type = "diff"
        /\ e.size = Len(diff)
        /\ e.status # StatusOK => diff = <<>>
        /\ e.status = StatusOK => diff \in OkDiffBodies

C18_DiffFetchFrame ==
    /\ []DiffReturned
    /\ [][DiffRequestStep =>
            /\ pc' = "summarize"
            /\ rows' = rows
            /\ merged_prs' = merged_prs]_vars

\* the second PR's diff request failed; the first PR's row, with its
\* generated title, is still there and both PRs are still collected
C18_Witness ==
    /\ pc = "summarize"
    /\ idx = 2
    /\ Len(merged_prs) = 2
    /\ events[Len(events)].status # StatusOK
    /\ diff = <<>>
    /\ Len(rows) = 1
    /\ rows[1].generated_title # <<>>

(* C19: each row carries its PR's number, title and body verbatim, a null  *)
(* title or body written as the empty string; its generated fields come    *)
(* from the model response to that PR's diff, and a row once appended is   *)
(* never changed.                                                          *)
Verbatim(o) == IF o = None THEN <<>> ELSE o[1]

ModelCalledFor(number) ==
    \E i \in EventsOf("model") : events[i].id = number

RowsCarryRecords ==
    /\ \A k \in DOMAIN rows :
          /\ k <= Len(merged_prs)
          /\ rows[k].number = merged_prs[k].number
          /\ rows[k].original_title = Verbatim(merged_prs[k].title)
          /\ rows[k].original_summary = Verbatim(merged_prs[k].body)
    /\ (pc \in {"fetch", "write", "done"} /\ rows # <<>>) =>
          LET row == rows[Len(rows)] IN
          IF ModelCalledFor(row.number) /\ response[1].kind = "text"
          THEN /\ row.generated_title = FirstLabelled(response[1].text, TITLE)
               /\ row.generated_summary =
                     FirstLabelled(response[1].text, SUMMARY)
          ELSE NoGenerated(row)

C19_RowsVerbatim ==
    /\ []RowsCarryRecords
    /\ [][Len(rows') >= Len(rows) /\ SubSeq(rows', 1, Len(rows)) = rows]_vars

\* two rows from two different responses, one PR with a null title
C19_Witness ==
    /\ pc = "done"
    /\ Len(rows) = 2
    /\ rows[1].generated_summary = <<"b">>
    /\ rows[2].generated_summary = <<"c">>
    /\ rows[2].generated_title = <<>>
    /\ \E k \in DOMAIN rows :
          /\ merged_prs[k].title = None
          /\ merged_prs[k].body # None
          /\ rows[k].original_title = <<>>
          /\ rows[k].original_summary # <<>>

====
